---- MODULE Spec2Model ----
(***************************************************************************)
(* Hospital management backend: pharmacy stock ledger, prescriptions and   *)
(* financial ledger.  The database tables are the state; every Express     *)
(* handler is a small process whose awaits are the points where handlers   *)
(* of other requests interleave.                                           *)
(*                                                                         *)
(* Money is kept in minor units (sellingPrice 0.50 is 50), so that         *)
(* Number(price) * quantity is exact integer arithmetic.                   *)
(* Row ids are the row's position in its table (the code uses UUIDs, of    *)
(* which only distinctness matters); visit id 0 is an absent visitId and   *)
(* -1 is a well-formed id that names no row.                               *)
(*                                                                         *)
(* prisma.$transaction(async tx => ...) is modelled at read-committed      *)
(* isolation: writes made through tx are buffered in the request, reads    *)
(* through tx see the committed tables overlaid with the request's own     *)
(* buffered writes, the buffer is applied in one step when the callback    *)
(* returns and is discarded when it throws.                                *)
(***************************************************************************)
EXTENDS Integers, Sequences, FiniteSets, TLC

VARIABLES stock, visits, prescriptions, transactions, expenses, req,
          workload, auditLogs, patients, users, lastExpenseId

vars == <<stock, visits, prescriptions, transactions, expenses, req,
          workload, auditLogs, patients, users, lastExpenseId>>

\* ---------------------------------------------------------------- bounds
MaxQty == 2
MaxItems == 2
MaxStock == 2
MaxPrescriptions == 2
MaxExpenses == 1
MaxAuditLogs == 3
MaxPatients == 2

\* ------------------------------------------------------------ value sets
Clients == {"c1", "c2"}
Meds == {"A"}
UnknownMed == "X"
MedNames == Meds \cup {UnknownMed}
User == "u1"
Prescribers == {User, "d1"}
NULL == "null"
PatientIds == {"p1", "p2"}

\* Dates are day numbers; Now is the day of the run.
Now == 10
UnknownPatient == "p0"

\* The ids prisma.patient.create gives the patients registered in a run.
NewPatientIds == <<"p3", "p4", "p5">>

\* req.body.phoneNumber: the number of patient p1, and one no patient has.
PhoneNumbers == {"n1", "n3"}
UserIds == Prescribers \cup {"u2"}
SellingPrices == {30, 50}
NewCosts == {0, 15}

\* req.body.newExpiry, a date string: new Date(newExpiry) is its day.
NewExpiries == {Now + 60}

InitStock == [m \in Meds |->
    [currentStock |-> 2, costPrice |-> 20, sellingPrice |-> 50,
     expiryDate |-> Now + 30]]

\* A pharmacy whose shelves hold one unit more than a restock may fill
\* them to.
LargerStock ==
    [m \in Meds |-> [InitStock[m] EXCEPT !.currentStock = MaxStock + 1]]

\* Rows written before createPrescription fulfilled on creation: the
\* columns' defaults are status 'Active' and paymentStatus 'Pending'.
PendingPrescription(medication, quantity) ==
    [visitId |-> 1, medication |-> medication, quantity |-> quantity,
     prescribedBy |-> User,
     status |-> "Active", paymentStatus |-> "Pending", totalAmount |-> 0,
     paidAt |-> NULL, transactionId |-> 0]

SeededPrescriptions ==
    <<PendingPrescription("A", 1), PendingPrescription(UnknownMed, 1)>>

\* The ids a request may name: those of the rows there can be, and 0, which
\* names no row.
PrescriptionIds == 0..(Len(SeededPrescriptions) + MaxPrescriptions)

dbVars == <<stock, visits, prescriptions, transactions, expenses>>

otherVars == <<workload, patients, users>>

RECURSIVE SumSeq(_)
SumSeq(s) == IF s = <<>> THEN 0 ELSE Head(s) + SumSeq(Tail(s))

\* ------------------------------------------------------------- requests
Idle == [op |-> "idle", pc |-> "done", result |-> "none",
         body |-> <<>>, loc |-> <<>>, overlap |-> {}]

InFlight(c) == req[c].pc # "done"

Running == {c \in Clients : InFlight(c)}

\* An optional body field is a sequence: <<>> when the field is absent.
Optional(S) == {<<>>} \cup {<<x>> : x \in S}

\* In one run client c calls the endpoints workload.ops[c], one request
\* at a time; adjustStock bodies carry a type of workload.types, a
\* newCost of workload.newCosts and a newExpiry of workload.newExpiries; the prescriptions table starts as
\* workload.seeded; createPrescription bodies name a prescriber of
\* workload.prescribers and a visitId of workload.visitIds;
\* prisma.auditLog.create has an outcome of
\* workload.auditWrites (TRUE: the row is written, FALSE: it throws); the
\* transactions table starts as workload.ledger and the pharmacy_stock
\* table as workload.stock.
\* Requests of different clients are in flight together.
Workload(ops1, ops2) ==
    [ops |-> [c \in Clients |-> IF c = "c1" THEN ops1 ELSE ops2],
     types |-> {"add", "subtract"}, newCosts |-> {<<>>},
     seeded |-> SeededPrescriptions, prescribers |-> {User},
     auditWrites |-> {TRUE}, ledger |-> <<>>, visitIds |-> {-1, 0, 1},
     stock |-> InitStock, newExpiries |-> {<<>>}]

\* A consultation fee entered through POST /api/finance before last week.
EarlierSale ==
    [type |-> "SALE", category |-> "CONSULTATION", amount |-> 100,
     referenceType |-> NULL, referenceId |-> 0, patientId |-> "p1",
     createdBy |-> User, createdAt |-> Now - 8]

Workloads ==
    {[Workload({"createPrescription", "fulfillPrescription"},
               {"createPrescription"}) EXCEPT !.visitIds = {1}],
     Workload({"fulfillPrescription"}, {"fulfillPrescription"}),
     [Workload({"createPrescription"}, {"adjustStock"})
         EXCEPT !.types = {"subtract"}],
     Workload({"fulfillPrescription"}, {"adjustStock"}),
     Workload({"adjustStock"}, {"adjustStock"}),
     [Workload({"createPrescription", "updateMedication"}, {})
         EXCEPT !.prescribers = Prescribers, !.visitIds = {0}],
     [Workload({"adjustStock"}, {})
         EXCEPT !.newCosts = Optional(NewCosts), !.auditWrites = BOOLEAN],
     [Workload({"createPrescription"}, {}) EXCEPT !.auditWrites = BOOLEAN],
     [Workload({"fulfillPrescription", "updatePrescription"}, {})
         EXCEPT !.seeded = <<PendingPrescription("A", 1)>>],
     Workload({"financeCreateExpense", "createExpense", "updateExpense",
               "deleteExpense"}, {}),
     [Workload({"createExpense"}, {}) EXCEPT !.auditWrites = BOOLEAN],
     Workload({"createPrescription", "deletePatient"}, {}),
     Workload({"createUser", "updateUser", "deleteUser"}, {}),
     [Workload({"createPrescription", "createExpense",
                "getFinancialSummary"}, {})
         EXCEPT !.ledger = <<EarlierSale>>],
     [Workload({"createPrescription"}, {})
         EXCEPT !.stock = LargerStock, !.visitIds = {0, 1}],
     Workload({"createPatient", "updatePatient", "deletePatient"}, {}),
     Workload({"createPatient"}, {"createPatient"}),
     [Workload({"fulfillPrescription", "adjustStock"}, {})
         EXCEPT !.newCosts = Optional({15}),
                !.newExpiries = Optional(NewExpiries),
                !.seeded = <<PendingPrescription("A", 1)>>]}

\* The requests of a run are handled one at a time when one client sends
\* them all.
Sequential == \E c \in Clients : workload.ops[c] = {}

\* A handler may start for client c: it is an endpoint c calls, and c has
\* no request in flight.
CanStart(c, op) == ~InFlight(c) /\ op \in workload.ops[c]

\* Prescription rows a transaction in flight holds uncommitted.
Buffered(c) == IF InFlight(c) /\ req[c].op = "createPrescription"
               THEN Len(req[c].loc.created) ELSE 0

\* Start of a request: remember which requests it overlaps with.  The
\* responses of the finished requests stay in req until the next request
\* arrives.
Started(c, r) ==
    [d \in Clients |->
        IF d = c THEN [r EXCEPT !.overlap = Running]
        ELSE IF InFlight(d) THEN [req[d] EXCEPT !.overlap = @ \cup {c}]
        ELSE Idle]

\* ------------------------------------------------------------ audit log
AuditLog(action, entity) ==
    [userId |-> User, action |-> action, entity |-> entity]

\* try { await prisma.auditLog.create({ data }) }: the row is written, or
\* the create throws and the table stays as it was.
CreateAuditLog(data, written) ==
    IF written THEN Append(auditLogs, data) ELSE auditLogs

\* A variant of the catch that throws the error on to the handler.
AuditFailureRethrown(written) == ~written

\* catch (error) { logger.error('Failed to create audit log', ...) }: the
\* error stops here.
AuditFailurePropagates(written) == FALSE

\* The answer of a handler whose writes are made and whose createAuditLog
\* call has returned or thrown: a throw lands in the handler's catch,
\* which answers 500.
AfterAudit(written) ==
    IF AuditFailurePropagates(written) THEN "Failed" ELSE "OK"

\* ------------------------------------------------- createPrescription
Item == [medication : MedNames, quantity : 1..MaxQty]

\* A variant that reads the committed row whatever the transaction has
\* written.
TxFindStockCommitted(txStock, name) ==
    IF name \notin Meds THEN [found |-> FALSE, currentStock |-> 0, sellingPrice |-> 0]
    ELSE [found |-> TRUE,
          currentStock |-> stock[name].currentStock,
          sellingPrice |-> stock[name].sellingPrice]

\* tx.pharmacyStock.findFirst({ where: { medicationName } }) inside the
\* transaction: NULL when no row has that name, else the row as the
\* transaction sees it.
TxFindStock(txStock, name) ==
    IF name \notin Meds THEN [found |-> FALSE, currentStock |-> 0, sellingPrice |-> 0]
    ELSE [found |-> TRUE,
          currentStock |-> IF name \in DOMAIN txStock THEN txStock[name]
                           ELSE stock[name].currentStock,
          sellingPrice |-> stock[name].sellingPrice]

\* Variants of the stock comparison: one that only asks for some stock to be
\* left, and one that also refuses a request for all that is left.
InsufficientStockNoneLeft(stockItem, quantity) == stockItem.currentStock <= 0

InsufficientStockAtExact(stockItem, quantity) == stockItem.currentStock <= quantity

\* if (stockItem.currentStock < med.quantity) throw ...
InsufficientStock(stockItem, quantity) == stockItem.currentStock < quantity

\* A variant that takes one unit whatever the quantity.
DeductedStockOneUnit(stockItem, quantity) == stockItem.currentStock - 1

\* currentStock: stockItem.currentStock - med.quantity, an absolute value
\* computed from the row as it was read.
DeductedStock(stockItem, quantity) == stockItem.currentStock - quantity

\* A variant that charges the unit price whatever the quantity.
TotalAmountUnitPrice(stockItem, quantity) == stockItem.sellingPrice

\* Number(stockItem.sellingPrice) * med.quantity
TotalAmount(stockItem, quantity) == stockItem.sellingPrice * quantity

\* A variant of the update of the stock row that goes to the database
\* directly instead of through the open transaction.
UpdateStockOutsideTx(name, currentStock) ==
    [stock EXCEPT ![name].currentStock = currentStock]

\* The committed pharmacy_stock table after tx.pharmacyStock.update inside
\* the open transaction: the write stays with the transaction.
TxUpdateStock(name, currentStock) == stock

\* A variant that lets a body without any anchor through.
MissingAnchorUnchecked(visitId, patientId) == FALSE

\* if (!finalVisitId) { if (!patientId) throw ... }
MissingAnchor(visitId, patientId) == visitId = 0 /\ patientId = NULL

\* A variant that takes every visit id for a row.
InvalidVisitUnchecked(visitId) == FALSE

\* const visitData = await tx.visit.findUnique(...);
\* if (!visitData) throw new Error('Invalid Visit ID')
InvalidVisit(visitId) == visitId \notin 1..Len(visits)

\* visitData.patientId
VisitPatientId(visitId) ==
    IF visitId \in 1..Len(visits) THEN visits[visitId].patientId ELSE NULL

\* A variant that puts the new prescription before the earlier ones.
CreatedPrescriptionsUnshifted(createdPrescriptions, prescription) ==
    <<prescription>> \o createdPrescriptions

\* createdPrescriptions.push(prescription)
CreatedPrescriptions(createdPrescriptions, prescription) ==
    Append(createdPrescriptions, prescription)

\* Entry of the handler up to the end of step "1. Ensure Visit Exists" and
\* the lookup of the visit's patient.  body.medications is revealed item by
\* item as the for loop consumes it: it holds the items consumed so far.
CreatePrescriptionBegin(c, visitId, patientId, prescribedBy) ==
    /\ CanStart(c, "createPrescription")
    /\ prescribedBy \in workload.prescribers
    /\ visitId \in workload.visitIds
    /\ LET r0 == [op |-> "createPrescription", pc |-> "items",
                  result |-> "none", overlap |-> {},
                  body |-> [visitId |-> visitId, patientId |-> patientId,
                            prescribedBy |-> prescribedBy,
                            medications |-> <<>>],
                  loc |-> [finalVisitId |-> visitId, newVisit |-> FALSE,
                           transactionPatientId |-> NULL,
                           stockItem |-> TxFindStock(<<>>, UnknownMed),
                           txStock |-> <<>>, created |-> <<>>,
                           createdIds |-> <<>>]]
           fail(msg) == [r0 EXCEPT !.pc = "done", !.result = msg]
       IN  IF MissingAnchor(visitId, patientId)
           THEN req' = Started(c, fail("MissingAnchor"))
           ELSE IF visitId = 0
           THEN req' = Started(c, [r0 EXCEPT !.loc.newVisit = TRUE,
                                   !.loc.transactionPatientId = patientId])
           ELSE IF InvalidVisit(visitId)
                THEN req' = Started(c, fail("InvalidVisit"))
                ELSE req' = Started(c, [r0 EXCEPT !.loc.transactionPatientId =
                                              VisitPatientId(visitId)])
    /\ UNCHANGED <<dbVars, otherVars, auditLogs, lastExpenseId>>

\* One iteration of the for loop, for the next item med of the batch:
\* "2. Stock Validation & Deduction" (findFirst, the two throws, update),
\* "3. Create Financial Transaction", "4. Create Prescription" and the
\* update of referenceId.  Only findFirst reads committed rows; the writes
\* go through tx and stay in the request until the commit.
CreatePrescriptionItem(c, med) ==
    /\ req[c].op = "createPrescription" /\ req[c].pc = "items"
    /\ Len(req[c].body.medications) < MaxItems
    /\ Len(prescriptions) + Buffered("c1") + Buffered("c2")
           < Len(workload.seeded) + MaxPrescriptions
    /\ LET stockItem == TxFindStock(req[c].loc.txStock, med.medication)
           row == [medication |-> med.medication, quantity |-> med.quantity,
                   prescribedBy |-> req[c].body.prescribedBy,
                   totalAmount |-> TotalAmount(stockItem, med.quantity)]
           r == [req[c] EXCEPT !.body.medications = Append(@, med),
                               !.loc.stockItem = stockItem]
           deducted == DeductedStock(stockItem, med.quantity)
       IN  IF ~stockItem.found
           THEN /\ req' = [req EXCEPT ![c] =
                       [r EXCEPT !.pc = "done", !.result = "MedicationNotFound"]]
                /\ stock' = stock
           ELSE IF InsufficientStock(stockItem, med.quantity)
           THEN /\ req' = [req EXCEPT ![c] =
                       [r EXCEPT !.pc = "done", !.result = "InsufficientStock"]]
                /\ stock' = stock
           ELSE /\ req' = [req EXCEPT ![c] =
                       [r EXCEPT !.loc.txStock = (med.medication :> deducted) @@ @,
                                 !.loc.created =
                                     CreatedPrescriptions(@, row)]]
                /\ stock' = TxUpdateStock(med.medication, deducted)
    /\ UNCHANGED <<visits, prescriptions, transactions, expenses, otherVars,
                 auditLogs, lastExpenseId>>

AutoVisit(patientId) ==
    [patientId |-> patientId, doctorId |-> User,
     chiefComplaint |-> "Direct Prescription", status |-> "Completed"]

\* A variant without the update of referenceId that follows the insert of
\* the prescription.
SaleTransactionUnreferenced(amount, referenceId, patientId) ==
    [type |-> "SALE", category |-> "PHARMACY", amount |-> amount,
     referenceType |-> "Prescription", referenceId |-> 0,
     patientId |-> patientId, createdBy |-> User, createdAt |-> Now]

SaleTransaction(amount, referenceId, patientId) ==
    [type |-> "SALE", category |-> "PHARMACY", amount |-> amount,
     referenceType |-> "Prescription", referenceId |-> referenceId,
     patientId |-> patientId, createdBy |-> User, createdAt |-> Now]

PaidPrescription(visitId, row, transactionId) ==
    [visitId |-> visitId, medication |-> row.medication,
     quantity |-> row.quantity, prescribedBy |-> row.prescribedBy,
     status |-> "Completed",
     paymentStatus |-> "Paid", totalAmount |-> row.totalAmount,
     paidAt |-> "set", transactionId |-> transactionId]

\* The callback returned createdPrescriptions: the transaction commits;
\* then the audit record of the batch and the answer.
CreatePrescriptionCommit(c, written) ==
    /\ req[c].op = "createPrescription" /\ req[c].pc = "items"
    /\ req[c].body.medications # <<>>
    /\ written \in workload.auditWrites
    /\ auditLogs' = CreateAuditLog(
           AuditLog("CREATE_PRESCRIPTION_AUTO_FULFILLED", "Prescription"),
           written)
    /\ LET l == req[c].loc
           n == Len(l.created)
           vId == IF l.newVisit THEN Len(visits) + 1 ELSE l.finalVisitId
           tId(k) == Len(transactions) + k
           pId(k) == Len(prescriptions) + k
       IN  /\ visits' = IF l.newVisit
                        THEN Append(visits, AutoVisit(req[c].body.patientId))
                        ELSE visits
           /\ stock' = [m \in Meds |->
                          IF m \in DOMAIN l.txStock
                          THEN [stock[m] EXCEPT !.currentStock = l.txStock[m]]
                          ELSE stock[m]]
           /\ transactions' = transactions \o
                  [k \in 1..n |-> SaleTransaction(l.created[k].totalAmount,
                                        pId(k), l.transactionPatientId)]
           /\ prescriptions' = prescriptions \o
                  [k \in 1..n |-> PaidPrescription(vId, l.created[k], tId(k))]
           /\ req' = [req EXCEPT ![c] =
                  [@ EXCEPT !.pc = "done", !.result = AfterAudit(written),
                            !.loc.finalVisitId = vId,
                            !.loc.createdIds = [k \in 1..n |-> pId(k)]]]
    /\ UNCHANGED <<expenses, otherVars, lastExpenseId>>

\* ------------------------------------------------- fulfillPrescription
\* A variant that lets a cancelled prescription through.
CancelledUnchecked(prescription) == FALSE

\* if (prescription.status === 'Cancelled') { res.status(400) ... }
Cancelled(prescription) == prescription.status = "Cancelled"

\* prisma.prescription.findUnique with its visit, and the three early
\* returns that follow it.  id 0 names no row.
FulfillPrescriptionFind(c, id) ==
    /\ CanStart(c, "fulfillPrescription")
    /\ id \in 0..Len(prescriptions)
    /\ LET r0 == [op |-> "fulfillPrescription", pc |-> "findMedication",
                  result |-> "none", overlap |-> {}, body |-> [id |-> id],
                  loc |-> [prescription |-> <<>>, medication |-> <<>>,
                           totalAmount |-> 0, transactionId |-> 0]]
           fail(msg) == [r0 EXCEPT !.pc = "done", !.result = msg]
       IN  IF id \notin 1..Len(prescriptions)
           THEN req' = Started(c, fail("PrescriptionNotFound"))
           ELSE IF prescriptions[id].paymentStatus = "Paid"
           THEN req' = Started(c, fail("AlreadyFulfilled"))
           ELSE IF Cancelled(prescriptions[id])
           THEN req' = Started(c, fail("Cancelled"))
           ELSE req' = Started(c, [r0 EXCEPT !.loc.prescription =
                    [medication |-> prescriptions[id].medication,
                     quantity |-> prescriptions[id].quantity,
                     patientId |-> visits[prescriptions[id].visitId].patientId]])
    /\ UNCHANGED <<dbVars, otherVars, auditLogs, lastExpenseId>>

\* prisma.pharmacyStock.findFirst outside any transaction, the two early
\* returns, and the computation of totalAmount.
FulfillPrescriptionFindMedication(c) ==
    /\ req[c].op = "fulfillPrescription" /\ req[c].pc = "findMedication"
    /\ LET prescription == req[c].loc.prescription
           medication == TxFindStock(<<>>, prescription.medication)
           r == [req[c] EXCEPT !.loc.medication = medication]
       IN  req' = [req EXCEPT ![c] =
                IF ~medication.found
                THEN [r EXCEPT !.pc = "done", !.result = "MedicationNotFound"]
                ELSE IF InsufficientStock(medication, prescription.quantity)
                THEN [r EXCEPT !.pc = "done", !.result = "InsufficientStock"]
                ELSE [r EXCEPT !.pc = "transaction",
                               !.loc.totalAmount =
                                   TotalAmount(medication, prescription.quantity)]]
    /\ UNCHANGED <<dbVars, otherVars, auditLogs, lastExpenseId>>

\* The $transaction of fulfillPrescription: its three writes use only
\* values read before it began, and commit together; then the audit
\* record and the answer.
FulfillPrescriptionTransaction(c, written) ==
    /\ req[c].op = "fulfillPrescription" /\ req[c].pc = "transaction"
    /\ written \in workload.auditWrites
    /\ auditLogs' = CreateAuditLog(
           AuditLog("FULFILL_PRESCRIPTION", "Prescription"), written)
    /\ LET l == req[c].loc
           id == req[c].body.id
           name == l.prescription.medication
           tId == Len(transactions) + 1
       IN  /\ stock' = [stock EXCEPT ![name].currentStock =
                            DeductedStock(l.medication, l.prescription.quantity)]
           /\ transactions' = Append(transactions,
                  SaleTransaction(l.totalAmount, id, l.prescription.patientId))
           /\ prescriptions' = [prescriptions EXCEPT ![id] =
                  [@ EXCEPT !.totalAmount = l.totalAmount,
                            !.paymentStatus = "Paid", !.paidAt = "set",
                            !.transactionId = tId, !.status = "Completed"]]
           /\ req' = [req EXCEPT ![c] =
                  [@ EXCEPT !.pc = "done", !.result = AfterAudit(written),
                            !.loc.transactionId = tId]]
    /\ UNCHANGED <<visits, expenses, otherVars, lastExpenseId>>

\* -------------------------------------------------- updatePrescription
\* validate(schema) rejects a body whose fields do not fit the schema and
\* hands the body on as it came, fields the schema does not name included
\* (adjustStock reads newCost, which adjustStockSchema does not name).
UpdatePrescriptionStatuses == {"Active", "Completed", "Cancelled"}

PaymentStatuses == {"Pending", "Paid"}

validate(schemaFields, body) ==
    \A f \in DOMAIN schemaFields :
        IF body[f] = <<>> THEN TRUE ELSE body[f][1] \in schemaFields[f]

UpdatePrescriptionBodies ==
    [status : Optional(UpdatePrescriptionStatuses),
     paymentStatus : Optional(PaymentStatuses)]

\* A handler with a single await runs in one step; it consumes the pending
\* responses like every arriving request.
Arrived(op) == /\ \E c \in Clients : CanStart(c, op)
               /\ req' = [d \in Clients |-> IF InFlight(d) THEN req[d] ELSE Idle]

\* prisma.prescription.update({ where: { id }, data: req.body })
UpdatePrescription(id, updateData, written) ==
    /\ Arrived("updatePrescription")
    /\ id \in 0..Len(prescriptions)
    /\ validate([status |-> UpdatePrescriptionStatuses], updateData)
    /\ written \in workload.auditWrites
    /\ Len(auditLogs) < MaxAuditLogs
    /\ auditLogs' = IF id \in 1..Len(prescriptions)
                    THEN CreateAuditLog(
                             AuditLog("UPDATE_PRESCRIPTION", "Prescription"),
                             written)
                    ELSE auditLogs
    /\ prescriptions' =
         IF id \in 1..Len(prescriptions)
         THEN [prescriptions EXCEPT ![id] =
                [@ EXCEPT !.status = IF updateData.status = <<>> THEN @
                                     ELSE updateData.status[1],
                          !.paymentStatus =
                              IF updateData.paymentStatus = <<>> THEN @
                              ELSE updateData.paymentStatus[1]]]
         ELSE prescriptions
    /\ UNCHANGED <<stock, visits, transactions, expenses, otherVars,
                 lastExpenseId>>

\* ---------------------------------------------------- updateMedication
UpdateMedication(name, sellingPrice, written) ==
    /\ Arrived("updateMedication")
    /\ written \in workload.auditWrites
    /\ Len(auditLogs) < MaxAuditLogs
    /\ auditLogs' = IF name \in Meds
                    THEN CreateAuditLog(
                             AuditLog("UPDATE_MEDICATION", "PharmacyStock"),
                             written)
                    ELSE auditLogs
    /\ stock' = IF name \in Meds
                THEN [stock EXCEPT ![name].sellingPrice = sellingPrice]
                ELSE stock
    /\ UNCHANGED <<visits, prescriptions, transactions, expenses, otherVars,
                 lastExpenseId>>

\* ---------------------------------------------------------- adjustStock
NewStock(type, currentStock, quantity) ==
    IF type = "add" THEN currentStock + quantity ELSE currentStock - quantity

\* A variant that lets every new stock through.
NegativeStockUnchecked(newStock) == FALSE

\* if (newStock < 0) { res.status(400) ... }
NegativeStock(newStock) == newStock < 0

\* newCost ? Number(newCost) : Number(medication.costPrice)
CostPerUnit(newCost, medication) ==
    IF newCost # <<>> /\ newCost[1] # 0 THEN newCost[1] ELSE medication.costPrice

\* A variant that takes newCost and newExpiry whatever the type.
UpdateDataAnyType(body, newStock, medication) ==
    [medication EXCEPT
        !.currentStock = newStock,
        !.costPrice = IF body.newCost # <<>> THEN body.newCost[1] ELSE @,
        !.expiryDate = IF body.newExpiry # <<>> THEN body.newExpiry[1] ELSE @]

\* const updateData: any = { currentStock: newStock };
\* if (type === 'add') { if (newCost !== undefined) ...; if (newExpiry
\* !== undefined) ... }: the row medication after the update.
UpdateData(body, newStock, medication) ==
    [medication EXCEPT
        !.currentStock = newStock,
        !.costPrice = IF body.type = "add" /\ body.newCost # <<>>
                      THEN body.newCost[1] ELSE @,
        !.expiryDate = IF body.type = "add" /\ body.newExpiry # <<>>
                       THEN body.newExpiry[1] ELSE @]

\* findUnique, the 404, the computation of newStock and the 400.
AdjustStockFind(c, name, quantity, type, newCost, newExpiry) ==
    /\ CanStart(c, "adjustStock")
    /\ type \in workload.types /\ newCost \in workload.newCosts
    /\ newExpiry \in workload.newExpiries
    /\ Len(auditLogs) < MaxAuditLogs
    /\ type = "add" => /\ name \in Meds => stock[name].currentStock + quantity <= MaxStock
                       /\ Len(expenses) < MaxExpenses
    /\ LET r0 == [op |-> "adjustStock", pc |-> "update",
                  result |-> "none", overlap |-> {},
                  body |-> [id |-> name, quantity |-> quantity, type |-> type,
                            newCost |-> newCost, newExpiry |-> newExpiry],
                  loc |-> [medication |-> <<>>, newStock |-> 0, totalCost |-> 0]]
           fail(msg) == [r0 EXCEPT !.pc = "done", !.result = msg]
       IN  IF name \notin Meds
           THEN req' = Started(c, fail("MedicationNotFound"))
           ELSE LET newStock == NewStock(type, stock[name].currentStock, quantity)
                IN  IF NegativeStock(newStock)
                    THEN req' = Started(c, [fail("InsufficientStock") EXCEPT
                                               !.loc.medication = stock[name]])
                    ELSE req' = Started(c, [r0 EXCEPT !.loc.medication = stock[name],
                                                      !.loc.newStock = newStock])
    /\ UNCHANGED <<dbVars, otherVars, auditLogs, lastExpenseId>>

\* prisma.pharmacyStock.update({ data: updateData }) and the decision
\* whether the restock is recorded as an expense.
AdjustStockUpdate(c, written) ==
    /\ req[c].op = "adjustStock" /\ req[c].pc = "update"
    /\ written \in workload.auditWrites
    /\ LET b == req[c].body
           l == req[c].loc
           totalCost == CostPerUnit(b.newCost, l.medication) * b.quantity
       IN  /\ stock' = [stock EXCEPT ![b.id] = UpdateData(b, l.newStock, @)]
           /\ IF b.type = "add" /\ b.quantity > 0 /\ totalCost > 0
              THEN /\ req' = [req EXCEPT ![c] =
                          [@ EXCEPT !.pc = "expense", !.loc.totalCost = totalCost]]
                   /\ auditLogs' = auditLogs
              ELSE /\ req' = [req EXCEPT ![c] =
                          [@ EXCEPT !.pc = "done", !.result = AfterAudit(written)]]
                   /\ auditLogs' = CreateAuditLog(
                          AuditLog("ADJUST_STOCK", "PharmacyStock"), written)
    /\ UNCHANGED <<visits, prescriptions, transactions, expenses, otherVars,
                 lastExpenseId>>

\* "1. Create Expense Record"
AdjustStockExpense(c) ==
    /\ req[c].op = "adjustStock" /\ req[c].pc = "expense"
    /\ lastExpenseId' = lastExpenseId + 1
    /\ expenses' = Append(expenses, [id |-> lastExpenseId + 1,
                                     category |-> "INVENTORY",
                                     amount |-> req[c].loc.totalCost,
                                     date |-> Now])
    /\ req' = [req EXCEPT ![c].pc = "transaction"]
    /\ UNCHANGED <<stock, visits, prescriptions, transactions, otherVars,
                 auditLogs>>

\* "2. Create Transaction Record"
AdjustStockTransaction(c, written) ==
    /\ req[c].op = "adjustStock" /\ req[c].pc = "transaction"
    /\ written \in workload.auditWrites
    /\ auditLogs' = CreateAuditLog(AuditLog("ADJUST_STOCK", "PharmacyStock"),
                                   written)
    /\ transactions' = Append(transactions,
           [type |-> "EXPENSE", category |-> "PHARMACY",
            amount |-> req[c].loc.totalCost, referenceType |-> "PharmacyStock",
            referenceId |-> 0, patientId |-> NULL, createdBy |-> User,
            createdAt |-> Now])
    /\ req' = [req EXCEPT ![c] =
           [@ EXCEPT !.pc = "done", !.result = AfterAudit(written)]]
    /\ UNCHANGED <<stock, visits, prescriptions, expenses, otherVars,
                 lastExpenseId>>

\* ------------------------------------------------------------- expenses
ExpenseAmounts == {40, 70}

\* req.body.date: a day before last week, or today.
ExpenseDates == {Now - 8, Now}

\* The ids a request may name: those generated so far name a row or a
\* deleted row, and 0 names no row.
ExpenseIds == 0..MaxExpenses

\* The positions of the rows of the expenses table whose id is id.
ExpenseRows(id) == {i \in 1..Len(expenses) : expenses[i].id = id}

ExpenseTransaction(amount, referenceId) ==
    [type |-> "EXPENSE", category |-> "OPERATIONAL", amount |-> amount,
     referenceType |-> "Expense", referenceId |-> referenceId,
     patientId |-> NULL, createdBy |-> User, createdAt |-> Now]

\* The answer of a handler that makes its writes in one step.
Answer(c, op, body, result) ==
    Started(c, [op |-> op, pc |-> "done", result |-> result, overlap |-> {},
                body |-> body, loc |-> <<>>])

\* POST /api/finance/expenses, "1. Create Expense Record".
FinanceCreateExpense(c, amount, date) ==
    /\ CanStart(c, "financeCreateExpense")
    /\ lastExpenseId < MaxExpenses
    /\ lastExpenseId' = lastExpenseId + 1
    /\ expenses' = Append(expenses, [id |-> lastExpenseId + 1,
                                     category |-> "UTILITIES",
                                     amount |-> amount, date |-> date])
    /\ req' = Started(c, [op |-> "financeCreateExpense", pc |-> "transaction",
                          result |-> "none", overlap |-> {},
                          body |-> [amount |-> amount, date |-> date],
                          loc |-> [expense |-> lastExpenseId + 1]])
    /\ UNCHANGED <<stock, visits, prescriptions, transactions, otherVars,
                 auditLogs>>

\* "2. Create Transaction Record", the audit record and the answer.
FinanceCreateExpenseTransaction(c, written) ==
    /\ req[c].op = "financeCreateExpense" /\ req[c].pc = "transaction"
    /\ written \in workload.auditWrites
    /\ transactions' = Append(transactions,
           ExpenseTransaction(req[c].body.amount, req[c].loc.expense))
    /\ auditLogs' = CreateAuditLog(AuditLog("CREATE_EXPENSE", "Expense"),
                                   written)
    /\ req' = [req EXCEPT ![c] =
           [@ EXCEPT !.pc = "done", !.result = AfterAudit(written)]]
    /\ UNCHANGED <<stock, visits, prescriptions, expenses, otherVars,
                 lastExpenseId>>

\* POST /api/expenses: prisma.expense.create, the audit record and the
\* answer.
CreateExpense(c, amount, date, written) ==
    /\ CanStart(c, "createExpense")
    /\ lastExpenseId < MaxExpenses
    /\ written \in workload.auditWrites
    /\ lastExpenseId' = lastExpenseId + 1
    /\ expenses' = Append(expenses, [id |-> lastExpenseId + 1,
                                     category |-> "SALARY",
                                     amount |-> amount, date |-> date])
    /\ auditLogs' = CreateAuditLog(AuditLog("CREATE_EXPENSE", "Expense"),
                                   written)
    /\ req' = Answer(c, "createExpense", [amount |-> amount, date |-> date],
                     AfterAudit(written))
    /\ UNCHANGED <<stock, visits, prescriptions, transactions, otherVars>>

\* PUT /api/expenses/:id: prisma.expense.update({ where: { id }, data:
\* req.body }) throws when no row has the id, and the catch answers 500.
UpdateExpense(c, id, amount, written) ==
    /\ CanStart(c, "updateExpense")
    /\ id \in 0..lastExpenseId
    /\ written \in workload.auditWrites
    /\ Len(auditLogs) < MaxAuditLogs
    /\ IF ExpenseRows(id) = {}
       THEN /\ req' = Answer(c, "updateExpense",
                             [id |-> id, amount |-> amount], "Failed")
            /\ UNCHANGED <<expenses, auditLogs>>
       ELSE /\ expenses' = [i \in 1..Len(expenses) |->
                              IF i \in ExpenseRows(id) /\ amount # <<>>
                              THEN [expenses[i] EXCEPT !.amount = amount[1]]
                              ELSE expenses[i]]
            /\ auditLogs' = CreateAuditLog(
                   AuditLog("UPDATE_EXPENSE", "Expense"), written)
            /\ req' = Answer(c, "updateExpense",
                             [id |-> id, amount |-> amount],
                             AfterAudit(written))
    /\ UNCHANGED <<stock, visits, prescriptions, transactions, otherVars,
                 lastExpenseId>>

\* DELETE /api/expenses/:id: prisma.expense.delete({ where: { id } })
\* throws when no row has the id.
DeleteExpense(c, id, written) ==
    /\ CanStart(c, "deleteExpense")
    /\ id \in 0..lastExpenseId
    /\ written \in workload.auditWrites
    /\ IF ExpenseRows(id) = {}
       THEN /\ req' = Answer(c, "deleteExpense", [id |-> id], "Failed")
            /\ UNCHANGED <<expenses, auditLogs>>
       ELSE /\ expenses' = SelectSeq(expenses, LAMBDA e : e.id # id)
            /\ auditLogs' = CreateAuditLog(
                   AuditLog("DELETE_EXPENSE", "Expense"), written)
            /\ req' = Answer(c, "deleteExpense", [id |-> id],
                             AfterAudit(written))
    /\ UNCHANGED <<stock, visits, prescriptions, transactions, otherVars,
                 lastExpenseId>>

\* ----------------------------------------------------- financial summary
Periods == {"today", "week", "month", "year"}

\* switch (period): the first day of the window.
StartDate(period) ==
    CASE period = "today" -> Now
      [] period = "week" -> Now - 7
      [] period = "month" -> Now - 30
      [] period = "year" -> Now - 365

\* _sum: { amount: true } over the rows of table at the positions rows.
RECURSIVE SumAmount(_, _)
SumAmount(table, rows) ==
    IF rows = {} THEN 0
    ELSE LET i == CHOOSE i \in rows : TRUE
         IN  table[i].amount + SumAmount(table, rows \ {i})

\* allStock.reduce((sum, item) => sum + costPrice * currentStock, 0)
RECURSIVE TotalInventoryValue(_)
TotalInventoryValue(meds) ==
    IF meds = {} THEN 0
    ELSE LET m == CHOOSE m \in meds : TRUE
         IN  stock[m].costPrice * stock[m].currentStock
               + TotalInventoryValue(meds \ {m})

\* A variant that leaves the inventory out of the expenses.
OperationalExpensesOnly(totalOperationalExpenses, totalInventoryValue) ==
    totalOperationalExpenses

\* "Total Expenses = Operational Expenses + Total Inventory Value"
TotalExpenses(totalOperationalExpenses, totalInventoryValue) ==
    totalOperationalExpenses + totalInventoryValue

\* GET /api/finance/summary: the window, and prisma.transaction.aggregate
\* over the SALE rows created in it.
GetFinancialSummaryRevenue(c, period) ==
    /\ CanStart(c, "getFinancialSummary")
    /\ LET startDate == StartDate(period)
           revenue == SumAmount(transactions,
               {t \in 1..Len(transactions) :
                   /\ transactions[t].type = "SALE"
                   /\ transactions[t].createdAt >= startDate})
       IN  req' = Started(c, [op |-> "getFinancialSummary", pc |-> "expenses",
                              result |-> "none", overlap |-> {},
                              body |-> [period |-> period],
                              loc |-> [startDate |-> startDate,
                                       revenue |-> revenue,
                                       expensesTotal |-> 0,
                                       summary |-> <<>>]])
    /\ UNCHANGED <<dbVars, otherVars, auditLogs, lastExpenseId>>

\* prisma.expense.aggregate over the expenses dated in the window.
GetFinancialSummaryExpenses(c) ==
    /\ req[c].op = "getFinancialSummary" /\ req[c].pc = "expenses"
    /\ req' = [req EXCEPT ![c] =
           [@ EXCEPT !.pc = "stock",
                     !.loc.expensesTotal = SumAmount(expenses,
                         {i \in 1..Len(expenses) :
                             expenses[i].date >= req[c].loc.startDate})]]
    /\ UNCHANGED <<dbVars, otherVars, auditLogs, lastExpenseId>>

\* prisma.pharmacyStock.findMany, the totals and the answer.
GetFinancialSummaryStock(c) ==
    /\ req[c].op = "getFinancialSummary" /\ req[c].pc = "stock"
    /\ LET totalRevenue == req[c].loc.revenue
           totalExpenses == TotalExpenses(req[c].loc.expensesTotal,
                                          TotalInventoryValue(Meds))
       IN  req' = [req EXCEPT ![c] =
               [@ EXCEPT !.pc = "done", !.result = "OK",
                         !.loc.summary = [revenue |-> totalRevenue,
                                          expenses |-> totalExpenses,
                                          profit |-> totalRevenue
                                                       - totalExpenses]]]
    /\ UNCHANGED <<dbVars, otherVars, auditLogs, lastExpenseId>>

\* ------------------------------------------------------------- patients
\* A variant of the delete that removes the row.
PatientRemoved(id) == [p \in DOMAIN patients \ {id} |-> patients[p]]

\* "Soft delete": prisma.patient.update({ data: { isActive: false } })
PatientDeleted(id) == [patients EXCEPT ![id].isActive = FALSE]

\* DELETE /api/patients/:id: the update throws when no row has the id.
DeletePatient(c, id, written) ==
    /\ CanStart(c, "deletePatient")
    /\ written \in workload.auditWrites
    /\ Len(auditLogs) < MaxAuditLogs
    /\ IF id \notin DOMAIN patients
       THEN /\ req' = Answer(c, "deletePatient", [id |-> id], "Failed")
            /\ UNCHANGED <<patients, auditLogs>>
       ELSE /\ patients' = PatientDeleted(id)
            /\ auditLogs' = CreateAuditLog(
                   AuditLog("DELETE_PATIENT", "Patient"), written)
            /\ req' = Answer(c, "deletePatient", [id |-> id],
                             AfterAudit(written))
    /\ UNCHANGED <<dbVars, workload, users, lastExpenseId>>

\* The patients registered in the run, and the requests that have passed
\* the check of createPatient and not yet created their row.
Registered == Cardinality(DOMAIN patients \ PatientIds)

Registering == Cardinality({c \in Clients :
                   InFlight(c) /\ req[c].op = "createPatient"})

\* prisma.patient.findFirst({ where: { phoneNumber, isActive: true } })
ExistingPatient(phoneNumber) ==
    {p \in DOMAIN patients : /\ patients[p].phoneNumber = phoneNumber
                             /\ patients[p].isActive}

\* POST /api/patients: the lookup of an active patient with the phone
\* number of the body, and the 409.
CreatePatientFind(c, phoneNumber) ==
    /\ CanStart(c, "createPatient")
    /\ Registered + Registering < MaxPatients
    /\ LET r0 == [op |-> "createPatient", pc |-> "create", result |-> "none",
                  overlap |-> {}, body |-> [phoneNumber |-> phoneNumber],
                  loc |-> [id |-> UnknownPatient]]
       IN  IF ExistingPatient(phoneNumber) # {}
           THEN req' = Started(c, [r0 EXCEPT !.pc = "done",
                                             !.result = "PatientExists"])
           ELSE req' = Started(c, r0)
    /\ UNCHANGED <<dbVars, otherVars, auditLogs, lastExpenseId>>

\* prisma.patient.create({ data: patientData }), the audit record and the
\* answer; isActive defaults to true.
CreatePatientCreate(c, written) ==
    /\ req[c].op = "createPatient" /\ req[c].pc = "create"
    /\ written \in workload.auditWrites
    /\ LET id == NewPatientIds[Registered + 1]
       IN  /\ patients' = (id :> [isActive |-> TRUE,
                                  phoneNumber |-> req[c].body.phoneNumber])
                              @@ patients
           /\ req' = [req EXCEPT ![c] =
                  [@ EXCEPT !.pc = "done", !.result = AfterAudit(written),
                            !.loc.id = id]]
    /\ auditLogs' = CreateAuditLog(AuditLog("CREATE_PATIENT", "Patient"),
                                   written)
    /\ UNCHANGED <<dbVars, workload, users, lastExpenseId>>

\* PUT /api/patients/:id: prisma.patient.update({ where: { id }, data:
\* req.body }) throws when no row has the id.
UpdatePatient(c, id, phoneNumber, written) ==
    /\ CanStart(c, "updatePatient")
    /\ written \in workload.auditWrites
    /\ Len(auditLogs) < MaxAuditLogs
    /\ IF id \notin DOMAIN patients
       THEN /\ req' = Answer(c, "updatePatient",
                             [id |-> id, phoneNumber |-> phoneNumber],
                             "Failed")
            /\ UNCHANGED <<patients, auditLogs>>
       ELSE /\ patients' = [patients EXCEPT ![id].phoneNumber =
                               IF phoneNumber = <<>> THEN @
                               ELSE phoneNumber[1]]
            /\ auditLogs' = CreateAuditLog(
                   AuditLog("UPDATE_PATIENT", "Patient"), written)
            /\ req' = Answer(c, "updatePatient",
                             [id |-> id, phoneNumber |-> phoneNumber],
                             AfterAudit(written))
    /\ UNCHANGED <<dbVars, workload, users, lastExpenseId>>

\* ---------------------------------------------------------------- users
\* POST /api/users: 409 when the email is taken (a user's email is its id
\* here), else prisma.user.create.  No audit record is written.
CreateUser(c, id) ==
    /\ CanStart(c, "createUser")
    /\ IF id \in DOMAIN users
       THEN /\ req' = Answer(c, "createUser", [id |-> id], "UserExists")
            /\ users' = users
       ELSE /\ users' = (id :> [isActive |-> TRUE]) @@ users
            /\ req' = Answer(c, "createUser", [id |-> id], "OK")
    /\ UNCHANGED <<dbVars, workload, patients, auditLogs, lastExpenseId>>

\* PUT /api/users/:id: prisma.user.update throws when no row has the id.
UpdateUser(c, id, isActive) ==
    /\ CanStart(c, "updateUser")
    /\ IF id \notin DOMAIN users
       THEN /\ req' = Answer(c, "updateUser",
                             [id |-> id, isActive |-> isActive], "Failed")
            /\ users' = users
       ELSE /\ users' = [users EXCEPT ![id].isActive = isActive]
            /\ req' = Answer(c, "updateUser",
                             [id |-> id, isActive |-> isActive], "OK")
    /\ UNCHANGED <<dbVars, workload, patients, auditLogs, lastExpenseId>>

\* A row whose foreign key to users is ON DELETE RESTRICT names user id
\* (every expense is created by User, whose deletion is refused before).
UserReferenced(id) ==
    \/ \E i \in 1..Len(visits) : visits[i].doctorId = id
    \/ \E i \in 1..Len(prescriptions) : prescriptions[i].prescribedBy = id
    \/ \E i \in 1..Len(transactions) : transactions[i].createdBy = id
    \/ \E i \in 1..Len(auditLogs) : auditLogs[i].userId = id

\* DELETE /api/users/:id: 400 for the caller's own account, 400 when the
\* delete violates a foreign key (P2003), 500 when no row has the id.
DeleteUser(c, id) ==
    /\ CanStart(c, "deleteUser")
    /\ IF id = User
       THEN /\ req' = Answer(c, "deleteUser", [id |-> id], "CannotDeleteSelf")
            /\ users' = users
       ELSE IF id \notin DOMAIN users
       THEN /\ req' = Answer(c, "deleteUser", [id |-> id], "Failed")
            /\ users' = users
       ELSE IF UserReferenced(id)
       THEN /\ req' = Answer(c, "deleteUser", [id |-> id], "HasRecords")
            /\ users' = users
       ELSE /\ users' = [u \in DOMAIN users \ {id} |-> users[u]]
            /\ req' = Answer(c, "deleteUser", [id |-> id], "OK")
    /\ UNCHANGED <<dbVars, workload, patients, auditLogs, lastExpenseId>>

\* ------------------------------------------------------------ the system
\* Both patients and both staff members are registered and active.
InitPatients ==
    [p \in PatientIds |->
        [isActive |-> TRUE, phoneNumber |-> IF p = "p1" THEN "n1" ELSE "n2"]]

InitUsers == [u \in Prescribers |-> [isActive |-> TRUE]]

Init ==
    /\ workload \in Workloads
    /\ stock = workload.stock
    /\ visits = <<[patientId |-> "p1", doctorId |-> "d1",
                   chiefComplaint |-> "Fever", status |-> "In Progress"]>>
    /\ prescriptions = workload.seeded
    /\ transactions = workload.ledger
    /\ expenses = <<>>
    /\ lastExpenseId = 0
    /\ auditLogs = <<>>
    /\ patients = InitPatients
    /\ users = InitUsers
    /\ req = [c \in Clients |-> Idle]

Next ==
    \/ \E c \in Clients, v \in {-1, 0, 1}, p \in {NULL, "p2"},
          prescribedBy \in Prescribers :
          CreatePrescriptionBegin(c, v, p, prescribedBy)
    \/ \E c \in Clients, med \in Item : CreatePrescriptionItem(c, med)
    \/ \E c \in Clients, written \in BOOLEAN :
          CreatePrescriptionCommit(c, written)
    \/ \E c \in Clients, id \in PrescriptionIds : FulfillPrescriptionFind(c, id)
    \/ \E c \in Clients : FulfillPrescriptionFindMedication(c)
    \/ \E c \in Clients, written \in BOOLEAN :
          FulfillPrescriptionTransaction(c, written)
    \/ \E id \in PrescriptionIds, updateData \in UpdatePrescriptionBodies,
          written \in BOOLEAN : UpdatePrescription(id, updateData, written)
    \/ \E name \in MedNames, sellingPrice \in SellingPrices,
          written \in BOOLEAN : UpdateMedication(name, sellingPrice, written)
    \/ \E c \in Clients, name \in MedNames, quantity \in 1..MaxQty,
          type \in {"add", "subtract"}, newCost \in Optional(NewCosts),
          newExpiry \in Optional(NewExpiries) :
          AdjustStockFind(c, name, quantity, type, newCost, newExpiry)
    \/ \E c \in Clients, written \in BOOLEAN : AdjustStockUpdate(c, written)
    \/ \E c \in Clients : AdjustStockExpense(c)
    \/ \E c \in Clients, written \in BOOLEAN :
          AdjustStockTransaction(c, written)
    \/ \E c \in Clients, amount \in ExpenseAmounts, date \in ExpenseDates :
          FinanceCreateExpense(c, amount, date)
    \/ \E c \in Clients, written \in BOOLEAN :
          FinanceCreateExpenseTransaction(c, written)
    \/ \E c \in Clients, amount \in ExpenseAmounts, date \in ExpenseDates,
          written \in BOOLEAN : CreateExpense(c, amount, date, written)
    \/ \E c \in Clients, id \in ExpenseIds,
          amount \in Optional(ExpenseAmounts), written \in BOOLEAN :
          UpdateExpense(c, id, amount, written)
    \/ \E c \in Clients, id \in ExpenseIds, written \in BOOLEAN :
          DeleteExpense(c, id, written)
    \/ \E c \in Clients, id \in PatientIds \cup {UnknownPatient},
          written \in BOOLEAN : DeletePatient(c, id, written)
    \/ \E c \in Clients, phoneNumber \in PhoneNumbers :
          CreatePatientFind(c, phoneNumber)
    \/ \E c \in Clients, written \in BOOLEAN : CreatePatientCreate(c, written)
    \/ \E c \in Clients, id \in PatientIds \cup {UnknownPatient},
          phoneNumber \in Optional(PhoneNumbers), written \in BOOLEAN :
          UpdatePatient(c, id, phoneNumber, written)
    \/ \E c \in Clients, id \in UserIds : CreateUser(c, id)
    \/ \E c \in Clients, id \in UserIds, isActive \in BOOLEAN :
          UpdateUser(c, id, isActive)
    \/ \E c \in Clients, id \in UserIds : DeleteUser(c, id)
    \/ \E c \in Clients, period \in Periods :
          GetFinancialSummaryRevenue(c, period)
    \/ \E c \in Clients : GetFinancialSummaryExpenses(c)
    \/ \E c \in Clients : GetFinancialSummaryStock(c)

Spec == Init /\ [][Next]_vars

\* ------------------------------------------------------------ properties
\* The handler of client c has answered a request to endpoint op.
Answered(c, op) == req[c].op = op /\ req[c].pc = "done"

\* This step is a step of the handler of client c's request (the start of
\* another request only touches the overlap of c's or clears its response).
Moved(c) ==
    /\ req'[c].op # "idle"
    /\ [req'[c] EXCEPT !.overlap = {}] # [req[c] EXCEPT !.overlap = {}]

\* This step is the commit of client c's createPrescription transaction.
Commits(c) ==
    /\ req[c].op = "createPrescription" /\ req[c].pc = "items"
    /\ req'[c].result = "OK"

\* The units of medication m that the batch items ask for.
RECURSIVE Requested(_, _)
Requested(items, m) ==
    IF items = <<>> THEN 0
    ELSE (IF Head(items).medication = m THEN Head(items).quantity ELSE 0)
         + Requested(Tail(items), m)

\* C1: the current stock of every medication is never negative, in every
\* state reachable by any interleaving of createPrescription,
\* fulfillPrescription and adjustStock add/subtract requests with positive
\* quantities, from a stock that is not negative.
C1_StockNeverNegative == \A m \in Meds : stock[m].currentStock >= 0

\* A createPrescription batch and an adjustStock subtract ran together,
\* both succeeded, and nothing is left.
C1_Witness ==
    \E c, d \in Clients :
        /\ Answered(c, "createPrescription") /\ req[c].result = "OK"
        /\ Answered(d, "adjustStock") /\ req[d].result = "OK"
        /\ req[d].body.type = "subtract"
        /\ d \in req[c].overlap
        /\ stock["A"].currentStock = 0

\* C2: no step of a createPrescription call other than its commit changes
\* the stock, the transactions, the prescriptions or the visits; so a batch
\* that fails at item k (unknown medication or too little stock) leaves all
\* four tables, the deductions of items 1..k-1 and the anchor visit
\* included, as they were before the call.
C2_FailedBatchWritesNothing ==
    [][\A c \in Clients :
          (Moved(c) /\ req'[c].op = "createPrescription" /\ req'[c].result # "OK")
              => UNCHANGED dbVars]_vars

\* A batch that was to create its anchor visit failed at its second item,
\* after the deduction of the first.
C2_Witness ==
    \E c \in Clients :
        /\ Answered(c, "createPrescription")
        /\ req[c].result \in {"MedicationNotFound", "InsufficientStock"}
        /\ Len(req[c].body.medications) = 2
        /\ Len(req[c].loc.created) = 1
        /\ req[c].loc.newVisit
        /\ stock = InitStock /\ Len(visits) = 1
        /\ prescriptions = workload.seeded /\ transactions = <<>>

\* C3: when two createPrescription batches that ran together each asked for
\* one unit of the same medication, and the stock they found was the last
\* unit, exactly one of them succeeded and the other failed for
\* insufficient stock.
C3_ExactlyOneGetsTheLastUnit ==
    \A c, d \in Clients :
        (/\ c # d
         /\ Answered(c, "createPrescription") /\ Answered(d, "createPrescription")
         /\ d \in req[c].overlap
         /\ req[c].body.medications = <<[medication |-> "A", quantity |-> 1]>>
         /\ req[d].body.medications = <<[medication |-> "A", quantity |-> 1]>>
         /\ req[c].loc.stockItem.currentStock = 1
         /\ req[d].loc.stockItem.currentStock \in {0, 1})
        => \/ req[c].result = "OK" /\ req[d].result = "InsufficientStock"
           \/ req[d].result = "OK" /\ req[c].result = "InsufficientStock"

\* C4: the commit of a createPrescription batch adds exactly one
\* transaction per item, each of type SALE and category PHARMACY, and their
\* amounts add up to the sum over the items of quantity times the selling
\* price the medication has at the call.
C4_BatchSalesTotal ==
    [][\A c \in Clients :
          Commits(c) =>
            LET items == req'[c].body.medications
                n == Len(transactions') - Len(transactions)
                new(k) == transactions'[Len(transactions) + k]
            IN  /\ n = Len(items)
                /\ \A k \in 1..n : /\ new(k).type = "SALE"
                                   /\ new(k).category = "PHARMACY"
                /\ SumSeq([k \in 1..n |-> new(k).amount])
                     = SumSeq([k \in 1..n |-> items[k].quantity
                                  * stock[items[k].medication].sellingPrice])]_vars

\* A batch of two items succeeded after the selling price was changed.
C4_Witness ==
    \E c \in Clients :
        /\ Answered(c, "createPrescription") /\ req[c].result = "OK"
        /\ Len(req[c].body.medications) = 2
        /\ stock["A"].sellingPrice = 30
        /\ Len(transactions) = 2
        /\ transactions[1].amount + transactions[2].amount = 60

\* C5: when the requests are handled one at a time, a createPrescription
\* call for exactly the quantity in stock does not fail and its commit
\* leaves the stock at 0; a call for more than is in stock (the same call
\* again) fails for insufficient stock and changes no table.
C5_ExactStockThenRefused ==
    [][Sequential =>
        \A c \in Clients :
          /\ (/\ Moved(c) /\ req[c].op = "createPrescription"
              /\ req[c].pc = "items" /\ req[c].body.medications = <<>>
              /\ Len(req'[c].body.medications) = 1
              /\ req'[c].body.medications[1].medication \in Meds)
             => LET med == req'[c].body.medications[1]
                    currentStock == stock[med.medication].currentStock
                IN  /\ med.quantity = currentStock => req'[c].pc = "items"
                    /\ med.quantity > currentStock =>
                          /\ req'[c].pc = "done"
                          /\ req'[c].result = "InsufficientStock"
                          /\ UNCHANGED dbVars
          /\ (/\ Commits(c) /\ Len(req[c].body.medications) = 1
              /\ req[c].body.medications[1].quantity
                     = stock[req[c].body.medications[1].medication].currentStock)
             => stock'[req[c].body.medications[1].medication].currentStock = 0]_vars

\* The second of two identical calls for all the stock was refused; the
\* first had sold it.
C5_Witness ==
    \E c \in Clients :
        /\ Sequential
        /\ Answered(c, "createPrescription")
        /\ req[c].result = "InsufficientStock"
        /\ req[c].body.medications = <<[medication |-> "A", quantity |-> 2]>>
        /\ stock["A"].currentStock = 0
        /\ Len(prescriptions) = Len(workload.seeded) + 1
        /\ prescriptions[Len(prescriptions)].quantity = 2
        /\ prescriptions[Len(prescriptions)].paymentStatus = "Paid"
        /\ Len(transactions) = 1

\* C6: when the requests are handled one at a time, after a successful
\* adjustStock add of quantity q the newest expense is of category
\* INVENTORY and the newest transaction of type EXPENSE and category
\* PHARMACY, each of amount q times the effective cost price: newCost when
\* the body has one, whatever its value, and else the cost price the
\* medication had.
C6_RestockRecordedAtEffectiveCost ==
    \A c \in Clients :
        (/\ Sequential
         /\ Answered(c, "adjustStock") /\ req[c].result = "OK"
         /\ req[c].body.type = "add")
        => LET b == req[c].body
               effective == IF b.newCost # <<>> THEN b.newCost[1]
                            ELSE req[c].loc.medication.costPrice
           IN  /\ expenses # <<>>
               /\ expenses[Len(expenses)].category = "INVENTORY"
               /\ expenses[Len(expenses)].amount = b.quantity * effective
               /\ transactions # <<>>
               /\ transactions[Len(transactions)].type = "EXPENSE"
               /\ transactions[Len(transactions)].category = "PHARMACY"
               /\ transactions[Len(transactions)].amount = b.quantity * effective

\* C7: when the requests are handled one at a time, the commit of a
\* createPrescription batch leaves, for every item of quantity q of a
\* medication of selling price p, a new prescription of that quantity with
\* totalAmount q * p, status Completed, paymentStatus Paid, a paidAt and a
\* transactionId naming a new SALE transaction of amount q * p that refers
\* back to it; and every medication's stock is what it was less the units
\* the batch asked for.
C7_ItemSoldAndRecorded ==
    [][Sequential =>
        \A c \in Clients :
          Commits(c) =>
            LET items == req'[c].body.medications
                ids == req'[c].loc.createdIds
            IN  /\ Len(ids) = Len(items)
                /\ \A k \in 1..Len(items) :
                     LET q == items[k].quantity
                         p == stock[items[k].medication].sellingPrice
                         row == prescriptions'[ids[k]]
                     IN  /\ ids[k] \in (Len(prescriptions) + 1)..Len(prescriptions')
                         /\ row.medication = items[k].medication
                         /\ row.quantity = q
                         /\ row.totalAmount = q * p
                         /\ row.status = "Completed"
                         /\ row.paymentStatus = "Paid"
                         /\ row.paidAt # NULL
                         /\ row.transactionId \in
                                (Len(transactions) + 1)..Len(transactions')
                         /\ transactions'[row.transactionId].type = "SALE"
                         /\ transactions'[row.transactionId].amount = q * p
                         /\ transactions'[row.transactionId].referenceId = ids[k]
                /\ \A m \in Meds :
                     stock'[m].currentStock =
                         stock[m].currentStock - Requested(items, m)]_vars

\* One unit of two was sold at 50.
C7_Witness ==
    \E c \in Clients :
        /\ Sequential
        /\ Answered(c, "createPrescription") /\ req[c].result = "OK"
        /\ req[c].body.medications = <<[medication |-> "A", quantity |-> 1]>>
        /\ stock["A"].currentStock = 1
        /\ prescriptions[req[c].loc.createdIds[1]].totalAmount = 50
        /\ prescriptions[req[c].loc.createdIds[1]].paymentStatus = "Paid"

\* C8: a prescription whose paymentStatus is Paid stays Paid, whatever
\* createPrescription, fulfillPrescription or updatePrescription call comes
\* next.
C8_PaidIsTerminal ==
    [][\A id \in 1..Len(prescriptions) :
          prescriptions[id].paymentStatus = "Paid"
              => prescriptions'[id].paymentStatus = "Paid"]_vars

\* The SALE transactions that refer to prescription id.
SalesOf(id) ==
    {t \in 1..Len(transactions) :
        /\ transactions[t].type = "SALE"
        /\ transactions[t].referenceType = "Prescription"
        /\ transactions[t].referenceId = id}

\* C9: in runs without updatePrescription, every Paid prescription has
\* exactly one SALE transaction, the one its transactionId names, and the
\* amount of that transaction is the prescription's totalAmount, the
\* quantity times the selling price at its fulfilment.
C9_OneSalePerPaidPrescription ==
    (\A c \in Clients : "updatePrescription" \notin workload.ops[c]) =>
        \A id \in 1..Len(prescriptions) :
            prescriptions[id].paymentStatus = "Paid" =>
                /\ SalesOf(id) = {prescriptions[id].transactionId}
                /\ transactions[prescriptions[id].transactionId].amount
                       = prescriptions[id].totalAmount

\* C10: a createPrescription call whose body has neither a visitId nor a
\* patientId is answered with the missing-anchor error by its first step,
\* and that step changes no table.
C10_MissingAnchorRejected ==
    [][\A c \in Clients :
          (/\ Moved(c) /\ req'[c].op = "createPrescription"
           /\ req'[c].body.visitId = 0 /\ req'[c].body.patientId = NULL)
          => /\ req'[c].pc = "done"
             /\ req'[c].result = "MissingAnchor"
             /\ UNCHANGED dbVars]_vars

\* A call without anchor was refused, and the tables are as they began.
C10_Witness ==
    \E c \in Clients :
        /\ Answered(c, "createPrescription")
        /\ req[c].body.visitId = 0 /\ req[c].body.patientId = NULL
        /\ req[c].result = "MissingAnchor"
        /\ stock = InitStock /\ Len(visits) = 1
        /\ prescriptions = workload.seeded /\ transactions = <<>>

\* C11: a createPrescription call whose visitId names no visit is answered
\* with the invalid-visit error by its first step, before any item is
\* looked at, and that step changes no table.
C11_InvalidVisitRejected ==
    [][\A c \in Clients :
          (/\ Moved(c) /\ req'[c].op = "createPrescription"
           /\ req'[c].body.visitId # 0
           /\ req'[c].body.visitId \notin 1..Len(visits))
          => /\ req'[c].pc = "done"
             /\ req'[c].result = "InvalidVisit"
             /\ req'[c].body.medications = <<>>
             /\ UNCHANGED dbVars]_vars

\* A call that named a visit that does not exist was refused, and the
\* tables are as they began.
C11_Witness ==
    \E c \in Clients :
        /\ Answered(c, "createPrescription")
        /\ req[c].body.visitId = -1
        /\ req[c].result = "InvalidVisit"
        /\ req[c].body.medications = <<>>
        /\ stock = InitStock /\ Len(visits) = 1
        /\ prescriptions = workload.seeded /\ transactions = <<>>

\* C12: the commit of a createPrescription call without visitId adds
\* exactly one visit, with status Completed, chiefComplaint "Direct
\* Prescription", the prescriber (prescribedBy) as doctor and the given
\* patient, and every prescription the call creates refers to that visit;
\* the commit of a call with a visitId adds no visit.
C12_AnchorVisit ==
    [][\A c \in Clients :
          Commits(c) =>
            IF req[c].body.visitId = 0
            THEN /\ Len(visits') = Len(visits) + 1
                 /\ SubSeq(visits', 1, Len(visits)) = visits
                 /\ visits'[Len(visits')].status = "Completed"
                 /\ visits'[Len(visits')].chiefComplaint = "Direct Prescription"
                 /\ visits'[Len(visits')].doctorId = req[c].body.prescribedBy
                 /\ visits'[Len(visits')].patientId = req[c].body.patientId
                 /\ \A k \in (Len(prescriptions) + 1)..Len(prescriptions') :
                        prescriptions'[k].visitId = Len(visits')
            ELSE visits' = visits]_vars

\* C13: an adjustStock subtract of more than the medication's current
\* stock is answered with the insufficient-stock error by its first step,
\* and that step changes no table: the stock row, the expenses and the
\* transactions stay as they were.
C13_SubtractTooMuchRejected ==
    [][\A c \in Clients :
          (/\ ~InFlight(c) /\ Moved(c) /\ req'[c].op = "adjustStock"
           /\ req'[c].body.type = "subtract"
           /\ req'[c].body.id \in Meds
           /\ req'[c].body.quantity > stock[req'[c].body.id].currentStock)
          => /\ req'[c].pc = "done"
             /\ req'[c].result = "InsufficientStock"
             /\ UNCHANGED dbVars]_vars

\* Two units were asked of a stock of one, and the stock is still one.
C13_Witness ==
    \E c \in Clients :
        /\ Answered(c, "adjustStock")
        /\ req[c].result = "InsufficientStock"
        /\ req[c].body.type = "subtract" /\ req[c].body.quantity = 2
        /\ req[c].loc.medication.currentStock = 1
        /\ stock["A"].currentStock = 1
        /\ stock["A"].costPrice = InitStock["A"].costPrice
        /\ expenses = <<>> /\ transactions = <<>>

\* The EXPENSE transactions that refer to the expense id.
ExpenseTransactionsOf(id) ==
    {t \in 1..Len(transactions) :
        /\ transactions[t].type = "EXPENSE"
        /\ transactions[t].referenceType = "Expense"
        /\ transactions[t].referenceId = id}

\* C14: expenses and transactions stay in sync.  Whenever no request is
\* in flight, every Expense row made by an expense endpoint has exactly
\* one EXPENSE Transaction that refers to it, of the same amount, and every
\* EXPENSE Transaction that refers to an Expense refers to a row that
\* exists and has the same amount.
C14_ExpensesInSync ==
    Running = {} =>
        /\ \A i \in 1..Len(expenses) :
              expenses[i].category # "INVENTORY" =>
                  /\ Cardinality(ExpenseTransactionsOf(expenses[i].id)) = 1
                  /\ \A t \in ExpenseTransactionsOf(expenses[i].id) :
                        transactions[t].amount = expenses[i].amount
        /\ \A t \in 1..Len(transactions) :
              (/\ transactions[t].type = "EXPENSE"
               /\ transactions[t].referenceType = "Expense")
              => \E i \in 1..Len(expenses) :
                    /\ expenses[i].id = transactions[t].referenceId
                    /\ expenses[i].amount = transactions[t].amount

\* C15: the financial ledger is append-only.  No step changes or removes a
\* Transaction row or an Expense row that exists: every row of either
\* table is there, as it was, after the step.
C15_LedgerAppendOnly ==
    [][/\ Len(transactions') >= Len(transactions)
       /\ \A t \in 1..Len(transactions) : transactions'[t] = transactions[t]
       /\ \A i \in 1..Len(expenses) :
             \E j \in 1..Len(expenses') : expenses'[j] = expenses[i]]_vars

\* C16: audit logging is best-effort.  Whenever the last step of a handler
\* makes its writes to the tables and the audit record is not written
\* (prisma.auditLog.create threw), the handler still answers success, with
\* the writes of that step in place.
C16_AuditBestEffort ==
    [][\A c \in Clients :
          (/\ Moved(c) /\ req'[c].pc = "done"
           /\ dbVars' # dbVars
           /\ auditLogs' = auditLogs)
          => req'[c].result = "OK"]_vars

\* A batch was created and answered with success, and no audit record was
\* ever written.
C16_Witness ==
    \E c \in Clients :
        /\ Answered(c, "createPrescription") /\ req[c].result = "OK"
        /\ req[c].loc.createdIds # <<>>
        /\ \A k \in 1..Len(req[c].loc.createdIds) :
              prescriptions[req[c].loc.createdIds[k]].paymentStatus = "Paid"
        /\ transactions # <<>>
        /\ auditLogs = <<>>

\* This step is the last step of a handler that succeeds: it answers
\* success, or it is the single step of a handler that wrote to a table.
Succeeds ==
    \/ \E c \in Clients :
          Moved(c) /\ req'[c].pc = "done" /\ req'[c].result = "OK"
    \/ /\ \A c \in Clients : ~Moved(c)
       /\ <<dbVars, patients, users>>' # <<dbVars, patients, users>>

\* C17: while audit records can be written, every mutating operation
\* that succeeds adds exactly one audit record, which carries the id of
\* the acting user; and no step changes or removes an audit record.
C17_OneAuditRecordPerMutation ==
    [][/\ (workload.auditWrites = {TRUE} /\ Succeeds)
          => /\ Len(auditLogs') = Len(auditLogs) + 1
             /\ auditLogs'[Len(auditLogs')].userId = User
       /\ Len(auditLogs') >= Len(auditLogs)
       /\ \A i \in 1..Len(auditLogs) : auditLogs'[i] = auditLogs[i]]_vars

\* C18: the financial fields of a Paid prescription are frozen.  No step
\* changes the totalAmount, paymentStatus, paidAt or transactionId of a
\* prescription that is Paid, nor the amount of the Transaction it is
\* linked to.
C18_PaidFinancialsFrozen ==
    [][\A id \in 1..Len(prescriptions) :
          prescriptions[id].paymentStatus = "Paid"
          => /\ prescriptions'[id].totalAmount = prescriptions[id].totalAmount
             /\ prescriptions'[id].paymentStatus = "Paid"
             /\ prescriptions'[id].paidAt = prescriptions[id].paidAt
             /\ prescriptions'[id].transactionId
                    = prescriptions[id].transactionId
             /\ prescriptions[id].transactionId \in 1..Len(transactions)
                => transactions'[prescriptions[id].transactionId].amount
                     = transactions[prescriptions[id].transactionId].amount]_vars

\* C19: patients are only soft-deleted.  A deletePatient that succeeds
\* leaves the Patient row in the table with isActive = false and leaves
\* the visits and the transactions as they were, so that every Visit and
\* every Transaction that names a patient names a row that exists.
C19_PatientSoftDeleted ==
    [][\A c \in Clients :
          (/\ Moved(c) /\ req'[c].op = "deletePatient"
           /\ req'[c].result = "OK")
          => LET id == req'[c].body.id
             IN  /\ id \in DOMAIN patients'
                 /\ ~patients'[id].isActive
                 /\ visits' = visits /\ transactions' = transactions
                 /\ \A i \in 1..Len(visits') :
                       visits'[i].patientId \in DOMAIN patients'
                 /\ \A t \in 1..Len(transactions') :
                       transactions'[t].patientId
                           \in DOMAIN patients' \cup {NULL}]_vars

\* Patient p2 was deleted after a visit and a sale were recorded for them.
C19_Witness ==
    \E c \in Clients :
        /\ Answered(c, "deletePatient") /\ req[c].result = "OK"
        /\ req[c].body.id = "p2"
        /\ "p2" \in DOMAIN patients /\ ~patients["p2"].isActive
        /\ \E i \in 1..Len(visits) : visits[i].patientId = "p2"
        /\ \E t \in 1..Len(transactions) : transactions[t].patientId = "p2"

\* The sum of the values of the function f.
RECURSIVE Total(_)
Total(f) ==
    IF DOMAIN f = {} THEN 0
    ELSE LET x == CHOOSE x \in DOMAIN f : TRUE
         IN  f[x] + Total([y \in DOMAIN f \ {x} |-> f[y]])

\* C20: the financial summary for a period reports as expenses the sum of
\* the amounts of the Expenses dated in the window plus the sum over all
\* medications of currentStock x costPrice, and as profit the sum of the
\* amounts of the SALE Transactions created in the window minus those
\* expenses.
C20_FinancialSummary ==
    \A c \in Clients :
        (Answered(c, "getFinancialSummary") /\ req[c].result = "OK")
        => LET from == StartDate(req[c].body.period)
               spent == Total([i \in 1..Len(expenses) |->
                                 IF expenses[i].date >= from
                                 THEN expenses[i].amount ELSE 0])
               inventory == Total([m \in Meds |->
                                 stock[m].currentStock * stock[m].costPrice])
               sold == Total([t \in 1..Len(transactions) |->
                                 IF /\ transactions[t].type = "SALE"
                                    /\ transactions[t].createdAt >= from
                                 THEN transactions[t].amount ELSE 0])
           IN  /\ req[c].loc.summary.expenses = spent + inventory
               /\ req[c].loc.summary.profit = sold - (spent + inventory)

\* The summary of the week after one unit was sold today and an expense
\* of 40 was dated today: the earlier sale is left out, the unit left in
\* stock counts as an expense of 20.
C20_Witness ==
    \E c \in Clients :
        /\ Answered(c, "getFinancialSummary") /\ req[c].result = "OK"
        /\ req[c].body.period = "week"
        /\ Len(expenses) = 1 /\ expenses[1].amount = 40
        /\ expenses[1].date = Now
        /\ stock["A"].currentStock = 1 /\ stock["A"].costPrice = 20
        /\ Len(transactions) = 2 /\ transactions[2].amount = 50
        /\ req[c].loc.summary.expenses = 60
        /\ req[c].loc.summary.profit = -10

\* The INVENTORY rows of the expenses table e, and the restock rows of the
\* transactions table t.
InventoryExpenses(e) ==
    Cardinality({i \in 1..Len(e) : e[i].category = "INVENTORY"})

RestockTransactions(t) ==
    Cardinality({i \in 1..Len(t) : /\ t[i].type = "EXPENSE"
                                   /\ t[i].category = "PHARMACY"})

\* C21: the restock path is atomic.  Every step of an adjustStock add that
\* raises the current stock of a medication also adds the INVENTORY
\* Expense and the EXPENSE Transaction of the restock, and no step of
\* adjustStock adds one of these two rows without the other.
C21_RestockAtomic ==
    [][\A c \in Clients :
          (Moved(c) /\ req'[c].op = "adjustStock")
          => LET newExpenses == InventoryExpenses(expenses')
                                    - InventoryExpenses(expenses)
                 newTransactions == RestockTransactions(transactions')
                                        - RestockTransactions(transactions)
             IN  /\ newExpenses = newTransactions
                 /\ (\E m \in Meds :
                        stock'[m].currentStock > stock[m].currentStock)
                    => newExpenses = 1]_vars

\* The stock a request read before it wrote: adjustStock reads the row at
\* its start, fulfillPrescription at its second step, and a
\* createPrescription batch of one item at that item.
ReadStock(c) ==
    IF req[c].op = "createPrescription"
    THEN req[c].loc.stockItem.currentStock
    ELSE req[c].loc.medication.currentStock

\* The units the successful request of client d took from medication m.
Deducted(d, m) ==
    IF req[d].op = "createPrescription"
    THEN Requested(req[d].body.medications, m)
    ELSE IF req[d].loc.prescription.medication = m
    THEN req[d].loc.prescription.quantity ELSE 0

\* C22: operations on the same medication row serialize.  When an
\* adjustStock add of a units and a createPrescription or
\* fulfillPrescription that deducts q units of the same medication ran
\* together, both read the row before either wrote it (they read the same
\* initial stock) and both succeeded, the current stock is the initial
\* stock plus a minus q.
C22_AddAndDeductSerialize ==
    \A c, d \in Clients : \A m \in Meds :
        (/\ Answered(c, "adjustStock") /\ req[c].result = "OK"
         /\ req[c].body.type = "add" /\ req[c].body.id = m
         /\ \/ Answered(d, "fulfillPrescription")
            \/ /\ Answered(d, "createPrescription")
               /\ Len(req[d].body.medications) = 1
         /\ req[d].result = "OK"
         /\ Deducted(d, m) > 0
         /\ d \in req[c].overlap
         /\ ReadStock(c) = ReadStock(d))
        => stock[m].currentStock
             = ReadStock(c) + req[c].body.quantity - Deducted(d, m)

\* The units of medication m that the PHARMACY SALE transactions added by
\* this step record: each such transaction records the quantity of the
\* prescription it refers to.
SoldInStep(m) ==
    Total([t \in (Len(transactions) + 1)..Len(transactions') |->
             IF /\ transactions'[t].type = "SALE"
                /\ transactions'[t].category = "PHARMACY"
                /\ prescriptions'[transactions'[t].referenceId].medication = m
             THEN prescriptions'[transactions'[t].referenceId].quantity
             ELSE 0])

\* C23: stock and sales stay matched.  Every step of a createPrescription
\* or fulfillPrescription call takes from the stock of every medication
\* exactly the units that the sale records it adds account for, and leaves
\* no stock negative: no stock is taken without a sale record and no sale
\* is recorded for units that were not there.
C23_StockMatchesSales ==
    [][\A c \in Clients :
          (/\ Moved(c)
           /\ req'[c].op \in {"createPrescription", "fulfillPrescription"})
          => \A m \in Meds :
                /\ stock[m].currentStock - stock'[m].currentStock
                       = SoldInStep(m)
                /\ stock'[m].currentStock >= 0]_vars

\* C24: the commit of a createPrescription batch of N items adds exactly
\* N transactions and N prescriptions and changes no row that was there,
\* adds one visit when the body has no visitId and none otherwise, and
\* answers with the N new prescriptions in the order of the items: the
\* k-th is the row made for the k-th item, with its medication and
\* quantity, and the k-th new transaction refers to it.  Its N stock
\* updates are made in that order too: the stock of the last item's
\* medication is what that item read less its quantity.
C24_BatchOfNItems ==
    [][\A c \in Clients :
          Commits(c) =>
            LET items == req'[c].body.medications
                N == Len(items)
                ids == req'[c].loc.createdIds
            IN  /\ Len(transactions') = Len(transactions) + N
                /\ SubSeq(transactions', 1, Len(transactions)) = transactions
                /\ Len(prescriptions') = Len(prescriptions) + N
                /\ SubSeq(prescriptions', 1, Len(prescriptions)) = prescriptions
                /\ Len(visits') = Len(visits)
                       + (IF req[c].body.visitId = 0 THEN 1 ELSE 0)
                /\ Len(ids) = N
                /\ \A k \in 1..N :
                      /\ ids[k] = Len(prescriptions) + k
                      /\ prescriptions'[ids[k]].medication = items[k].medication
                      /\ prescriptions'[ids[k]].quantity = items[k].quantity
                      /\ transactions'[Len(transactions) + k].referenceId
                             = ids[k]
                      /\ transactions'[Len(transactions) + k].amount
                             = prescriptions'[ids[k]].totalAmount
                /\ stock'[items[N].medication].currentStock
                       = req[c].loc.stockItem.currentStock - items[N].quantity]_vars

\* A batch of one unit and then two units of a stock of three succeeded:
\* the first new prescription is the one of one unit.
C24_Witness ==
    \E c \in Clients :
        /\ Answered(c, "createPrescription") /\ req[c].result = "OK"
        /\ req[c].body.visitId = 0
        /\ req[c].body.medications = <<[medication |-> "A", quantity |-> 1],
                                       [medication |-> "A", quantity |-> 2]>>
        /\ Len(req[c].loc.createdIds) = 2
        /\ prescriptions[req[c].loc.createdIds[1]].quantity = 1
        /\ prescriptions[req[c].loc.createdIds[2]].quantity = 2
        /\ Len(visits) = 2 /\ Len(transactions) = 2
        /\ transactions[1].amount = 50 /\ transactions[2].amount = 100
        /\ stock["A"].currentStock = 0

\* C25: adjustStock overwrites costPrice and expiryDate only on add and
\* only with the newCost and newExpiry of the body.  The update of an add
\* sets each of the two that the body supplies and leaves the other; no
\* step of a subtract changes either, whatever the body supplies; and no
\* step of adjustStock changes the amount of an Expense, a Transaction or
\* a Prescription that exists.
C25_CostAndExpiryOnlyOnAdd ==
    [][\A c \in Clients :
          (/\ Moved(c) /\ req'[c].op = "adjustStock"
           /\ req'[c].body.id \in Meds)
          => LET b == req'[c].body
                 old == stock[b.id]
                 new == stock'[b.id]
                 updates == InFlight(c) /\ req[c].pc = "update"
             IN  /\ new.costPrice =
                        IF updates /\ b.type = "add" /\ b.newCost # <<>>
                        THEN b.newCost[1] ELSE old.costPrice
                 /\ new.expiryDate =
                        IF updates /\ b.type = "add" /\ b.newExpiry # <<>>
                        THEN b.newExpiry[1] ELSE old.expiryDate
                 /\ Len(expenses') >= Len(expenses)
                 /\ \A i \in 1..Len(expenses) :
                       expenses'[i].amount = expenses[i].amount
                 /\ Len(transactions') >= Len(transactions)
                 /\ \A t \in 1..Len(transactions) :
                       transactions'[t].amount = transactions[t].amount
                 /\ Len(prescriptions') = Len(prescriptions)
                 /\ \A id \in 1..Len(prescriptions) :
                       prescriptions'[id].totalAmount
                           = prescriptions[id].totalAmount]_vars

\* A subtract whose body carried a new cost and a new expiry date was
\* made after a sale: the stock row has the cost and the date it had, and
\* the sale its amount.
C25_Witness ==
    \E c \in Clients :
        /\ Answered(c, "adjustStock") /\ req[c].result = "OK"
        /\ req[c].body.type = "subtract"
        /\ req[c].body.newCost = <<15>>
        /\ req[c].body.newExpiry = <<Now + 60>>
        /\ stock["A"].currentStock = 0
        /\ stock["A"].costPrice = InitStock["A"].costPrice
        /\ stock["A"].expiryDate = InitStock["A"].expiryDate
        /\ prescriptions[1].paymentStatus = "Paid"
        /\ prescriptions[1].totalAmount = 50
        /\ Len(transactions) = 1 /\ transactions[1].amount = 50

\* C26: two fulfillPrescription calls for the same Pending prescription
\* that ran together leave at most one SALE transaction that refers to
\* it and its quantity taken from the stock at most once; they did not
\* both succeed: one of them was refused as already fulfilled.
C26_FulfilledOnce ==
    \A c, d \in Clients :
        (/\ c # d
         /\ Answered(c, "fulfillPrescription")
         /\ Answered(d, "fulfillPrescription")
         /\ req[c].body.id = req[d].body.id
         /\ req[c].body.id \in 1..Len(workload.seeded)
         /\ workload.seeded[req[c].body.id].medication \in Meds
         /\ d \in req[c].overlap
         /\ req[c].result = "OK")
        => LET id == req[c].body.id
               m == prescriptions[id].medication
           IN  /\ Cardinality(SalesOf(id)) <= 1
               /\ stock[m].currentStock
                      >= ReadStock(c) - prescriptions[id].quantity
               /\ req[d].result = "AlreadyFulfilled"

\* C27: when the requests are handled one at a time, every item of a
\* createPrescription batch is checked against the stock that the earlier
\* items of the batch have left: the item is refused for insufficient
\* stock, and no table changes, exactly when the units the batch has asked
\* of its medication so far exceed the stock the medication had at the
\* start; so a batch only commits when the units it asks of every
\* medication are in stock, and its commit takes exactly those units.
C27_ItemsShareTheStock ==
    [][Sequential =>
        \A c \in Clients :
          /\ (/\ Moved(c) /\ req[c].op = "createPrescription"
              /\ req[c].pc = "items"
              /\ Len(req'[c].body.medications)
                     = Len(req[c].body.medications) + 1
              /\ req'[c].body.medications[Len(req'[c].body.medications)]
                     .medication \in Meds)
             => LET items == req'[c].body.medications
                    m == items[Len(items)].medication
                IN  IF Requested(items, m) > stock[m].currentStock
                    THEN /\ req'[c].pc = "done"
                         /\ req'[c].result = "InsufficientStock"
                         /\ UNCHANGED dbVars
                    ELSE req'[c].pc = "items"
          /\ Commits(c)
             => \A m \in Meds :
                   /\ Requested(req[c].body.medications, m)
                          <= stock[m].currentStock
                   /\ stock'[m].currentStock = stock[m].currentStock
                          - Requested(req[c].body.medications, m)]_vars

\* A batch of two units and then one unit of a stock of two was refused at
\* its second item, and the stock is still two.
C27_Witness ==
    \E c \in Clients :
        /\ Sequential
        /\ Answered(c, "createPrescription")
        /\ req[c].result = "InsufficientStock"
        /\ req[c].body.medications = <<[medication |-> "A", quantity |-> 2],
                                       [medication |-> "A", quantity |-> 1]>>
        /\ req[c].loc.stockItem.currentStock = 0
        /\ stock["A"].currentStock = 2
        /\ transactions = <<>>

\* C28: the commit of a createPrescription batch leaves the prescriptions
\* and the SALE transactions it creates in one-to-one correspondence:
\* the transactionId of every created prescription names a transaction
\* created by the commit, different prescriptions name different
\* transactions and every created transaction is named; the transaction
\* has referenceType Prescription, the id of the prescription as
\* referenceId and the patient of the prescription's visit as patientId.
C28_PrescriptionsAndSalesPaired ==
    [][\A c \in Clients :
          Commits(c) =>
            LET ids == req'[c].loc.createdIds
                created == {ids[k] : k \in 1..Len(ids)}
                sales == (Len(transactions) + 1)..Len(transactions')
                sale(id) == transactions'[prescriptions'[id].transactionId]
            IN  /\ created = (Len(prescriptions) + 1)..Len(prescriptions')
                /\ \A id \in created :
                      /\ prescriptions'[id].transactionId \in sales
                      /\ sale(id).type = "SALE"
                      /\ sale(id).referenceType = "Prescription"
                      /\ sale(id).referenceId = id
                      /\ prescriptions'[id].visitId \in 1..Len(visits')
                      /\ sale(id).patientId
                             = visits'[prescriptions'[id].visitId].patientId
                /\ \A id1, id2 \in created :
                      prescriptions'[id1].transactionId
                          = prescriptions'[id2].transactionId => id1 = id2
                /\ \A t \in sales :
                      \E id \in created : prescriptions'[id].transactionId = t]_vars

\* While another request was in flight, a batch of two items for patient p2
\* without a visit succeeded: each of its prescriptions names its own
\* sale, recorded for p2.
C28_Witness ==
    \E c \in Clients :
        /\ Answered(c, "createPrescription") /\ req[c].result = "OK"
        /\ req[c].overlap # {}
        /\ req[c].body.visitId = 0 /\ req[c].body.patientId = "p2"
        /\ Len(req[c].loc.createdIds) = 2
        /\ \A k \in 1..2 :
              LET id == req[c].loc.createdIds[k]
                  t == prescriptions[id].transactionId
              IN  /\ t \in 1..Len(transactions)
                  /\ transactions[t].referenceId = id
                  /\ transactions[t].patientId = "p2"
                  /\ visits[prescriptions[id].visitId].patientId = "p2"
        /\ prescriptions[req[c].loc.createdIds[1]].transactionId
               # prescriptions[req[c].loc.createdIds[2]].transactionId

\* C29: a fulfillPrescription call for a prescription that does not
\* exist or is cancelled is refused by its first step, and a call for a
\* medication without stock entry or for more than the medication's
\* current stock by its second step; these steps change no table.  Every
\* other call for a Pending prescription goes on to its transaction, which
\* in one step adds one SALE transaction that refers to the prescription
\* and sets the prescription to Completed and Paid, and, when the
\* requests are handled one at a time, takes the quantity from the stock.
C29_FulfilOrRefuse ==
    [][\A c \in Clients :
          (Moved(c) /\ req'[c].op = "fulfillPrescription") =>
            LET id == req'[c].body.id
                refused(msgs) == /\ req'[c].pc = "done"
                                 /\ req'[c].result \in msgs
                                 /\ UNCHANGED dbVars
            IN  IF ~InFlight(c)
                THEN IF id \notin 1..Len(prescriptions)
                     THEN refused({"PrescriptionNotFound"})
                     ELSE IF prescriptions[id].status = "Cancelled"
                     THEN refused({"Cancelled", "AlreadyFulfilled"})
                     ELSE IF prescriptions[id].paymentStatus = "Pending"
                     THEN req'[c].pc = "findMedication" /\ UNCHANGED dbVars
                     ELSE refused({"AlreadyFulfilled"})
                ELSE IF req[c].pc = "findMedication"
                THEN LET prescription == req[c].loc.prescription
                     IN  IF prescription.medication \notin Meds
                         THEN refused({"MedicationNotFound"})
                         ELSE IF prescription.quantity
                                   > stock[prescription.medication].currentStock
                         THEN refused({"InsufficientStock"})
                         ELSE req'[c].pc = "transaction" /\ UNCHANGED dbVars
                ELSE LET prescription == req[c].loc.prescription
                         m == prescription.medication
                     IN  /\ req'[c].pc = "done" /\ req'[c].result = "OK"
                         /\ Len(transactions') = Len(transactions) + 1
                         /\ SubSeq(transactions', 1, Len(transactions))
                                = transactions
                         /\ transactions'[Len(transactions')].type = "SALE"
                         /\ transactions'[Len(transactions')].referenceId = id
                         /\ prescriptions'[id].status = "Completed"
                         /\ prescriptions'[id].paymentStatus = "Paid"
                         /\ prescriptions'[id].transactionId
                                = Len(transactions')
                         /\ Sequential =>
                               stock'[m].currentStock
                                   = stock[m].currentStock
                                       - prescription.quantity]_vars

\* The fulfilment of a prescription that had been cancelled was refused:
\* the prescription is still Pending, nothing was sold and the stock is
\* what it was.
C29_Witness ==
    \E c \in Clients :
        /\ Answered(c, "fulfillPrescription")
        /\ req[c].result = "Cancelled"
        /\ prescriptions[req[c].body.id].status = "Cancelled"
        /\ prescriptions[req[c].body.id].paymentStatus = "Pending"
        /\ prescriptions[req[c].body.id].transactionId = 0
        /\ transactions = <<>>
        /\ stock = InitStock

\* C30: no two active patients have the same phone number, in every state
\* reachable by any interleaving of createPatient, updatePatient and
\* deletePatient calls.
C30_ActivePhoneNumbersDistinct ==
    \A p, q \in DOMAIN patients :
        (/\ p # q
         /\ patients[p].isActive /\ patients[q].isActive)
        => patients[p].phoneNumber # patients[q].phoneNumber
====
